---------------------------- MODULE Spec2Model ----------------------------
(***************************************************************************)
(* Vue3 GateKeeper: the GateKeeper pipeline (src/src/gateKeeper.ts) and    *)
(* the baseGate denial rules (src/src/gates/baseGate.ts).                  *)
(*                                                                         *)
(* Spec is one GateKeeper used the way its documentation describes: one    *)
(* handle() call at a time, with setGates, setRouteData and the host's     *)
(* changes to gateInstances made between calls.  A gate's handle() either  *)
(* returns nothing (pass) or this.fail(), which it evaluates while it is    *)
(* being called or, when it awaits something first, after that.            *)
(*                                                                         *)
(* SpecRuns runs the same GateKeeper again and again, with gates that may  *)
(* also throw, and remembers how the previous call ended.  SpecNav is the  *)
(* hook setupGateRouterHandler installs with router.beforeEach.            *)
(* SpecOverlap has two handle() calls on one GateKeeper suspended at the   *)
(* same time.  SpecPlugin is gatePlugin.install with its two GateKeepers.  *)
(* SpecQuery uses gates whose route() returns locations with a query, and  *)
(* SpecLive assumes that a gate that is awaited does answer.               *)
(*                                                                         *)
(* JavaScript values are tagged records, so that values of different       *)
(* JavaScript types can be compared:                                       *)
(*   undefined, null, booleans, strings, functions (classes), objects      *)
(*   (own properties in .props) and arrays used as dictionaries.           *)
(***************************************************************************)
EXTENDS Naturals, Integers, Sequences, FiniteSets, TLC

(* ------------------------------ bounds -------------------------------- *)

\* Longest gate list handed to setGates / the constructor.
MaxGates == 2

(* -------------------------- JavaScript values -------------------------- *)

Undefined == [t |-> "undefined"]
Null == [t |-> "null"]
Bool(b) == [t |-> "boolean", b |-> b]
False == Bool(FALSE)
Str(s) == [t |-> "string", s |-> s]
Obj(p) == [t |-> "object", props |-> p]
\* A value found on a prototype (Array.prototype.map, ...): a function that
\* is no gate instance.
Builtin(k) == [t |-> "function", builtin |-> k]

\* Names Array.prototype defines: `[]` used as a dictionary inherits them.
ArrayPrototype == {"map", "filter", "find", "push"}

\* JavaScript truthiness (of the values the program handles).
Truthy(v) ==
  CASE v.t = "undefined" -> FALSE
    [] v.t = "null" -> FALSE
    [] v.t = "boolean" -> v.b
    [] v.t = "string" -> v.s # ""
    [] OTHER -> TRUE

\* String(v), as `+` applies it to a string or boolean operand.
StringOf(v) ==
  CASE v.t = "string" -> v.s
    [] v.t = "boolean" -> IF v.b THEN "true" ELSE "false"
    [] OTHER -> v.t

IsPrimitive(v) == v.t \in {"undefined", "null", "boolean", "string"}

\* o[k] for a plain object or a primitive string/boolean: an own property,
\* else undefined (no name of Object.prototype is used as a key here).
Get(o, k) ==
  IF o.t = "object" /\ k \in DOMAIN o.props THEN o.props[k] ELSE Undefined

\* o[k] = v on a plain object.
Put(o, k, v) ==
  Obj([x \in DOMAIN o.props \cup {k} |-> IF x = k THEN v ELSE o.props[x]])

\* a[k] where a was created as `[]`: own property, else Array.prototype's.
ArrayGet(a, k) ==
  IF k \in DOMAIN a THEN a[k]
  ELSE IF k \in ArrayPrototype THEN Builtin(k)
  ELSE Undefined

(* ----------------------------- gate classes ---------------------------- *)

\* A gate class (a subclass of baseGate): its `form` field and, when it
\* overrides route(), the value its route() returns.
GateClass(n, f, ov, r) ==
  [t |-> "class", cname |-> n, form |-> f, overridesRoute |-> ov, routeReturns |-> r]

\* hasGivenCameraPermission: no form, baseGate's route().
CameraGate == GateClass("hasGivenCameraPermission", False, FALSE, Undefined)
\* README "More examples": form = "AddKittens", baseGate's route().
KittensGate == GateClass("userHasKittens", Str("AddKittens"), FALSE, Undefined)
\* README "Changing route behavior": route() returns {name: "login"}.
LoginGate ==
  GateClass("isAuthenticated", False, TRUE, Obj([name |-> Str("login")]))
\* README: route() returns {name: "login", setRedirectToIntended: false}
\* (here with a query of its own).
GuestGate ==
  GateClass("isGuest", False, TRUE,
            Obj([name |-> Str("login"),
                 setRedirectToIntended |-> False,
                 query |-> Obj([tab |-> Str("home")])]))
\* route() returns a location with a query of its own and no opt-out.
TabGate ==
  GateClass("isAuthenticated", False, TRUE,
            Obj([name |-> Str("login"), query |-> Obj([tab |-> Str("home")])]))
\* route() returns a path string (RouteLocationRaw includes string).
PathGate == GateClass("isSubscribed", Str("Subscribe"), TRUE, Str("/login"))
\* A host's gate with the guide's form whose handle() is written as
\* hasGivenCameraPermission's: it awaits a request and returns this.fail()
\* from the catch.
AskingGate == GateClass("userHasKittensAsked", Str("AddKittens"), FALSE, Undefined)

\* The classes whose handle() may return this.fail() after an await of its
\* own; the guide's gates return it before handle() first yields.
awaitsBeforeFail(cls) == cls \in {CameraGate, AskingGate}

(* ------------------------------- baseGate ------------------------------ *)

\* A gate instance: its class, its identity and its options field.
NewGate(cls, id) == [t |-> "gate", cls |-> cls, id |-> id, options |-> Obj(<<>>)]

\* setOptions keeping the options the instance was first given.
setOptionsOnce(inst, options) ==
  IF inst.options = Obj(<<>>) THEN [inst EXCEPT !.options = options] ELSE inst

setOptions(inst, options) == [inst EXCEPT !.options = options]

\* route() without the `form === false` case.
routeAlwaysConfirm(inst) ==
  IF inst.cls.overridesRoute THEN inst.cls.routeReturns
  ELSE Obj([path |-> Str("/confirm/" \o StringOf(inst.cls.form))])

\* The gate's route(): its override, else baseGate's.
route(inst) ==
  IF inst.cls.overridesRoute THEN inst.cls.routeReturns
  ELSE IF inst.cls.form = False THEN inst.cls.form
  ELSE Obj([path |-> Str("/confirm/" \o StringOf(inst.cls.form))])

\* fail() that tests only that options has a routeData key.
failIfRouteDataKey(inst) ==
  IF /\ Truthy(inst.options)
     /\ inst.options.t = "object"
     /\ "routeData" \in DOMAIN inst.options.props
  THEN route(inst)
  ELSE inst.cls.form

fail(inst) ==
  IF /\ Truthy(inst.options)
     /\ inst.options.t = "object"
     /\ "routeData" \in DOMAIN inst.options.props
     /\ Truthy(inst.options.props.routeData)
  THEN route(inst)
  ELSE inst.cls.form

(* ------------------------------ GateKeeper ----------------------------- *)

Err(n, m) == [t |-> "error", name |-> n, message |-> m]

UnknownGateError(name) ==
  Err("Error", "Gate " \o name \o " does not exist. Please make sure it is imported and added to the gateInstances object.")

\* The TypeError of calling .setOptions on a value that is no gate instance.
NotAGateError == Err("TypeError", "this.gateClasses[name].setOptions is not a function")

\* The TypeError of a property read on null, or of a property write on a
\* primitive (class bodies and modules are strict code).
PropertyError == Err("TypeError", "Cannot create property 'query'")

convertSingularGateToArray(gate) ==
  IF gate.t = "array" THEN gate.items ELSE <<gate>>

\* convertStringGateToObject giving a bare name an empty options object.
convertStringGateToObjectWithOptions(gate) ==
  IF gate.t = "string" THEN Obj([name |-> gate, options |-> Obj(<<>>)]) ELSE gate

convertStringGateToObject(gate) ==
  IF gate.t = "string" THEN Obj([name |-> gate]) ELSE gate

\* The value setGates stores in this.gates.
setGates(input) ==
  LET arr == convertSingularGateToArray(input)
  IN [i \in 1..Len(arr) |-> convertStringGateToObject(arr[i])]

getGateNames(gs) == [i \in 1..Len(gs) |-> Get(gs[i], "name")]

\* addOrGetGateClass without the cache test.
addOrGetGateClassAlwaysNew(gc, name, gateClass, id) ==
  [x \in DOMAIN gc \cup {name} |->
     IF x = name THEN NewGate(gateClass, id) ELSE gc[x]]

\* addOrGetGateClass dropping the instance it finds cached.
addOrGetGateClassToggling(gc, name, gateClass, id) ==
  IF ~Truthy(ArrayGet(gc, name))
  THEN [x \in DOMAIN gc \cup {name} |->
          IF x = name THEN NewGate(gateClass, id) ELSE gc[x]]
  ELSE [x \in DOMAIN gc \ {name} |-> gc[x]]

\* this.gateClasses after addOrGetGateClass(name, gateClass); id is the
\* identity of the instance `new gateClass()` would create.
addOrGetGateClass(gc, name, gateClass, id) ==
  IF ~Truthy(ArrayGet(gc, name))
  THEN [x \in DOMAIN gc \cup {name} |->
          IF x = name THEN NewGate(gateClass, id) ELSE gc[x]]
  ELSE gc

\* handleGate remembering a failed resolution in the cache.
handleGateRememberingFailure(gi, gc, name, options, id) ==
  LET registered == IF Truthy(gi) THEN Truthy(Get(gi, name)) ELSE FALSE
      gc1 == IF registered THEN addOrGetGateClass(gc, name, Get(gi, name), id)
             ELSE gc
      target == ArrayGet(gc1, name)
  IN  IF ~Truthy(target)
      THEN [gateClasses |-> [x \in DOMAIN gc1 \cup {name} |->
                               IF x = name THEN UnknownGateError(name) ELSE gc1[x]],
            constructed |-> FALSE,
            threw |-> UnknownGateError(name)]
      ELSE IF target.t # "gate"
      THEN [gateClasses |-> gc1, constructed |-> FALSE, threw |-> target]
      ELSE [gateClasses |-> [gc1 EXCEPT ![name] = setOptions(@, options)],
            constructed |-> gc1 # gc,
            threw |-> Undefined]

\* handleGate(name, options) up to the call of the gate's handle():
\* the cache afterwards, whether a constructor ran, and the error thrown
\* (undefined when the gate's handle() was invoked).
handleGate(gi, gc, name, options, id) ==
  LET registered == IF Truthy(gi) THEN Truthy(Get(gi, name)) ELSE FALSE
      gc1 == IF registered THEN addOrGetGateClass(gc, name, Get(gi, name), id)
             ELSE gc
      target == ArrayGet(gc1, name)
  IN  IF ~Truthy(target)
      THEN [gateClasses |-> gc1, constructed |-> FALSE,
            threw |-> UnknownGateError(name)]
      ELSE IF target.t # "gate"
      THEN [gateClasses |-> gc1, constructed |-> FALSE, threw |-> NotAGateError]
      ELSE [gateClasses |-> [gc1 EXCEPT ![name] = setOptions(@, options)],
            constructed |-> gc1 # gc,
            threw |-> Undefined]

\* The default export of ./gates/<name>.ts, for the gate files the guide
\* has the host put in the gates folder; undefined when there is no file.
GateModule(name) ==
  CASE name = "isAuthenticated" -> LoginGate
    [] name = "userHasKittens" -> KittensGate
    [] OTHER -> Undefined

\* The TypeError of calling .setOptions on undefined.
NoInstanceError == Err("TypeError", "Cannot read properties of undefined (reading 'setOptions')")

\* loadGateFromGateKeeper(name, options) up to the call of the gate's
\* handle(): the gateInstances object and the cache afterwards and the
\* error the returned promise rejects with. No method calls it.
loadGateFromGateKeeper(gi, gc, name, options, id) ==
  LET module == GateModule(name)
      adds == Truthy(gi) /\ ~Truthy(Get(gi, name))
      gi1 == IF adds THEN Put(gi, name, module) ELSE gi
      gc1 == IF adds THEN addOrGetGateClass(gc, name, module, id) ELSE gc
      target == ArrayGet(gc1, name)
  IN  IF module = Undefined
      THEN [gateInstances |-> gi, gateClasses |-> gc,
            threw |-> Err("TypeError", "Failed to fetch dynamically imported module")]
      ELSE IF target = Undefined
      THEN [gateInstances |-> gi1, gateClasses |-> gc1, threw |-> NoInstanceError]
      ELSE IF target.t # "gate"
      THEN [gateInstances |-> gi1, gateClasses |-> gc1, threw |-> NotAGateError]
      ELSE [gateInstances |-> gi1,
            gateClasses |-> [gc1 EXCEPT ![name] = setOptions(@, options)],
            threw |-> Undefined]

\* routeData?.fullPath
fullPathOf(rd) ==
  IF rd.t \in {"undefined", "null"} THEN Undefined ELSE Get(rd, "fullPath")

Fulfilled(v) == [status |-> "fulfilled", value |-> v]
Rejected(e) == [status |-> "rejected", value |-> e]
Pending == [status |-> "pending", value |-> Undefined]

\* intercept without the setRedirectToIntended test.
interceptAlwaysResume(gate, data, rd) ==
  LET result == Obj([gate |-> Get(gate, "name"), data |-> data])
  IN  IF data = False THEN Fulfilled(result)
      ELSE IF data.t = "null" THEN Rejected(PropertyError)
      ELSE IF Truthy(fullPathOf(rd))
      THEN IF IsPrimitive(data) THEN Rejected(PropertyError)
           ELSE Fulfilled(Obj([gate |-> Get(gate, "name"),
                               data |-> Put(data, "query",
                                            Obj([redirect |-> fullPathOf(rd)]))]))
      ELSE Fulfilled(result)

\* The result holding a copy, with the gate's own object left as it was.
routedAfterCopy(data, rd) == data

\* The value the gate returned as it is once handle() is over:
\* `result.data.query = ...` writes to the very object the gate returned.
routedAfter(data, rd) ==
  IF data = False \/ IsPrimitive(data) THEN data
  ELSE IF Get(data, "setRedirectToIntended") # False /\ Truthy(fullPathOf(rd))
  THEN Put(data, "query", Obj([redirect |-> fullPathOf(rd)]))
  ELSE data

\* handle(), once a gate returned something other than undefined: the
\* result {gate, data}, with the resume query set on data.
intercept(gate, data, rd) ==
  LET result == Obj([gate |-> Get(gate, "name"), data |-> data])
  IN  IF data = False THEN Fulfilled(result)
      ELSE IF data.t = "null" THEN Rejected(PropertyError)
      ELSE IF Get(data, "setRedirectToIntended") # False /\ Truthy(fullPathOf(rd))
      THEN IF IsPrimitive(data) THEN Rejected(PropertyError)
           ELSE Fulfilled(Obj([gate |-> Get(gate, "name"),
                               data |-> Put(data, "query",
                                            Obj([redirect |-> fullPathOf(rd)]))]))
      ELSE Fulfilled(result)

(* -------------------------------- inputs ------------------------------- *)

\* Gate names a gate list may hold; "map" is also a name of Array.prototype.
GateNames == {"isAuthenticated", "userHasKittens", "map"}

\* The classes the host may register under a name.
ClassesFor(n) ==
  CASE n = "isAuthenticated" -> {LoginGate, GuestGate}
    [] n = "userHasKittens" -> {KittensGate, CameraGate, PathGate}
    [] OTHER -> {CameraGate}

Arr(items) == [t |-> "array", items |-> items]

NameLists == UNION {[1..n -> GateNames] : n \in 0..MaxGates}

\* Arguments of setGates and of the constructor: arrays of names and one
\* bare name.
GateInputs ==
  {Arr([i \in 1..Len(l) |-> Str(l[i])]) : l \in NameLists}
    \cup {Str("userHasKittens")}

\* Arguments of setRouteData: a RouteLocationRaw without fullPath and a
\* RouteLocationNormalized (a pipeline nobody gave a target has undefined).
RouteDataInputs ==
  {Obj([path |-> Str("/buy")]),
   Obj([path |-> Str("/buy"), fullPath |-> Str("/buy")])}

\* The gateInstances argument of the constructor: none, an empty object,
\* the README's registration.
GateInstancesInputs ==
  {Null,
   Obj(<<>>),
   Obj([isAuthenticated |-> LoginGate, userHasKittens |-> KittensGate])}

(* -------------------------------- state -------------------------------- *)

VARIABLES
  gates,          \* this.gates
  gateInstances,  \* this.gateInstances (the host's object, or undefined)
  gateClasses,    \* this.gateClasses: own properties of the `[]`
  routeData,      \* this.routeData
  run,            \* the handle() call in progress and its promise
  ctorCalls,      \* per gate name, how often `new gateClass()` ran
  parked,         \* a second handle() call, suspended while `run` executes
  last,           \* what the previous handle() call did (SpecRuns)
  nav,            \* the navigation the router hook is handling (SpecNav)
  other           \* the plugin's second GateKeeper (SpecPlugin)

vars == <<gates, gateInstances, gateClasses, routeData, run, ctorCalls,
          parked, last, nav, other>>

\* What the specifications that do not use them leave alone.
aux == <<parked, last, nav, other>>

\* The awaited gate has not evaluated this.fail() in a callback of its own.
NoAnswer == [given |-> FALSE, inst |-> Undefined, data |-> Undefined]

\* No handle() call in progress.
Idle ==
  [pc |-> "idle", list |-> <<>>, idx |-> 0, routeData |-> Undefined,
   resolutions |-> <<>>, evals |-> <<>>, held |-> <<>>, routed |-> Undefined,
   answer |-> NoAnswer, promise |-> Pending]

\* No previous handle() call.
NoLast == [verdicts |-> <<>>, promise |-> Pending, untouched |-> FALSE]

\* The plugin is not installed: there is one GateKeeper only.
NoOther ==
  [role |-> "none", hook |-> FALSE, gates |-> <<>>, gateClasses |-> <<>>,
   routeData |-> Undefined, run |-> Idle]

\* No navigation in the hook.
NoNav == [pc |-> "none", to |-> Undefined, call |-> Idle, returned |-> Pending]

Init ==
  /\ parked = Idle
  /\ last = NoLast
  /\ nav = NoNav
  /\ other = NoOther
  /\ \E g \in GateInputs : gates = setGates(g)
  /\ \E gi \in GateInstancesInputs :
       gateInstances = IF Truthy(gi) THEN gi ELSE Undefined
  /\ gateClasses = <<>>
  /\ routeData = Undefined
  /\ run = Idle
  /\ ctorCalls = [n \in GateNames |-> 0]

(* ------------------------------- handle() ------------------------------ *)

\* The log of a handle() call: run.resolutions lists the names given to
\* handleGate, run.evals the gates' handle() calls (with the instance as it
\* was called) and what each resolved to (with the instance as it was when
\* the await returned); run.routeData is this.routeData
\* as handle() was called, run.held this.gates as each gate was called,
\* run.routed the value the denying gate returned, as it is after handle().
Invoked(pos, inst) == [ev |-> "invoke", pos |-> pos, inst |-> inst, data |-> Undefined]
Settled(pos, inst, data) == [ev |-> "settle", pos |-> pos, inst |-> inst, data |-> data]

\* The i-th gate the for..of loop of handle() takes from the array.
gateAtReversed(list, i) == list[Len(list) + 1 - i]

gateAt(list, i) == list[i]

\* `result.data !== undefined`: the gate returned something.
isInterceptedIfTruthy(data) == Truthy(data)

isIntercepted(data) == data # Undefined

\* One turn of the for..of loop of handle() at position i of the array it
\* iterates: the loop ends (all gates passed), or handleGate throws, or the
\* gate's handle() is invoked and awaited. rd is this.routeData and gs
\* this.gates at that moment.
LoopWith(r, i, rd, gs) ==
  IF i > Len(r.list)
  THEN /\ run' = [r EXCEPT !.pc = "settled", !.idx = i, !.promise = Fulfilled(Undefined)]
       /\ UNCHANGED <<gateClasses, ctorCalls>>
  ELSE LET gate == gateAt(r.list, i)
           name == Get(gate, "name").s
           options == Obj([routeData |-> rd,
                           gateOptions |-> Get(gate, "options")])
           h == handleGate(gateInstances, gateClasses, name, options,
                           [name |-> name, serial |-> ctorCalls[name] + 1])
       IN  /\ gateClasses' = h.gateClasses
           /\ ctorCalls' = IF h.constructed
                           THEN [ctorCalls EXCEPT ![name] = @ + 1]
                           ELSE ctorCalls
           /\ run' = IF h.threw # Undefined
                     THEN [r EXCEPT !.pc = "settled", !.idx = i,
                                    !.resolutions = Append(@, name),
                                    !.promise = Rejected(h.threw)]
                     ELSE [r EXCEPT !.pc = "awaiting", !.idx = i,
                                    !.resolutions = Append(@, name),
                                    !.held = Append(@, gs),
                                    !.answer = NoAnswer,
                                    !.evals = Append(@, Invoked(i, h.gateClasses[name]))]

\* The loop taking its next gate from this.gates as it is now.
LoopAtLive(r, i) == LoopWith([r EXCEPT !.list = gates], i, routeData, gates)

\* The loop going back to the first gate after a gate that passed.
LoopAtFromStart(r, i) ==
  LoopWith(r, IF i > Len(r.list) THEN i ELSE 1, routeData, gates)

LoopAt(r, i) == LoopWith(r, i, routeData, gates)

\* A caller calls handle(): it runs up to its first await.
Handle ==
  /\ run.pc = "idle"
  /\ LoopAt([Idle EXCEPT !.list = gates, !.routeData = routeData], 1)
  /\ UNCHANGED <<gates, gateInstances, routeData>>

\* The gate's own callback runs after what the gate awaited failed: it
\* evaluates this.fail() on the instance as it is by then, and the gate's
\* promise is resolved with the value. handle() continues in a later turn.
Answered(inst) == [given |-> TRUE, inst |-> inst, data |-> fail(inst)]

GateCatches ==
  /\ run.pc = "awaiting"
  /\ ~run.answer.given
  /\ LET name == Get(gateAt(run.list, run.idx), "name").s
     IN  /\ awaitsBeforeFail(gateClasses[name].cls)
         /\ run' = [run EXCEPT !.answer = Answered(gateClasses[name])]
  /\ UNCHANGED <<gates, gateInstances, gateClasses, routeData, ctorCalls>>

\* What the awaited gate's handle() resolves to: nothing when it lets the
\* request pass, this.fail() when it does not. "fail" is this.fail()
\* evaluated during the call of handle(), before it first yields, on the
\* instance as it was called; "failLater" is the value this.fail() gave
\* when the gate's callback evaluated it.
GateVerdicts == {"pass", "fail", "failLater"}

gateHandle(called, answer, verdict) ==
  CASE verdict = "pass" -> Undefined
    [] verdict = "fail" -> fail(called)
    [] verdict = "failLater" -> answer.data

\* The awaited gate's promise resolves and handle() continues.
GateSettles(verdict) ==
  /\ run.pc = "awaiting"
  /\ verdict = "failLater" <=> run.answer.given
  /\ LET gate == gateAt(run.list, run.idx)
         name == Get(gate, "name").s
         called == run.evals[Len(run.evals)].inst
         data == gateHandle(called, run.answer, verdict)
         r == [run EXCEPT !.evals = Append(@, Settled(run.idx, gateClasses[name], data))]
     IN  IF isIntercepted(data)
         THEN /\ run' = [r EXCEPT !.pc = "settled",
                                  !.routed = routedAfter(data, routeData),
                                  !.promise = intercept(gate, data, routeData)]
              /\ UNCHANGED <<gateClasses, ctorCalls>>
         ELSE LoopAt(r, run.idx + 1)
  /\ UNCHANGED <<gates, gateInstances, routeData>>

\* What a gate's handle() throws, or rejects with, when it fails: an Error
\* or any other value.
GateErrors == {Err("Error", "permission query failed"), Str("camera busy")}

\* A catch around the await that turns the failure into a cancellation.
rethrowAsCancel(gate, e) ==
  Fulfilled(Obj([gate |-> Get(gate, "name"), data |-> False]))

\* handle() has no try/catch: the await rethrows what the gate threw and
\* the async function rejects with it.
rethrow(gate, e) == Rejected(e)

Thrown(pos, inst, e) == [ev |-> "throw", pos |-> pos, inst |-> inst, data |-> e]

\* The awaited gate's handle() throws or its promise rejects.
GateRejects(e) ==
  /\ run.pc = "awaiting"
  /\ ~run.answer.given
  /\ LET gate == gateAt(run.list, run.idx)
         name == Get(gate, "name").s
     IN  run' = [run EXCEPT !.pc = "settled",
                            !.evals = Append(@, Thrown(run.idx, gateClasses[name], e)),
                            !.promise = rethrow(gate, e)]
  /\ UNCHANGED <<gates, gateInstances, gateClasses, routeData, ctorCalls>>

\* The caller has taken the result of handle().
Returned ==
  /\ run.pc = "settled"
  /\ run' = Idle
  /\ UNCHANGED <<gates, gateInstances, gateClasses, routeData, ctorCalls>>

(* ----------------------------- configuration --------------------------- *)

SetGates(input) ==
  /\ run.pc = "idle"
  /\ gates' = setGates(input)
  /\ UNCHANGED <<gateInstances, gateClasses, routeData, run, ctorCalls>>

SetRouteData(rd) ==
  /\ run.pc = "idle"
  /\ routeData' = rd
  /\ UNCHANGED <<gates, gateInstances, gateClasses, run, ctorCalls>>

\* The host adds or replaces an entry of the gateInstances object it gave
\* the constructor.
HostRegisters(n, cls) ==
  /\ run.pc = "idle"
  /\ gateInstances # Undefined
  /\ gateInstances' = Put(gateInstances, n, cls)
  /\ UNCHANGED <<gates, gateClasses, routeData, run, ctorCalls>>

\* The host deletes an entry of its gateInstances object.
HostRemoves(n) ==
  /\ run.pc = "idle"
  /\ gateInstances # Undefined
  /\ n \in DOMAIN gateInstances.props
  /\ gateInstances' = Obj([x \in DOMAIN gateInstances.props \ {n} |->
                             gateInstances.props[x]])
  /\ UNCHANGED <<gates, gateClasses, routeData, run, ctorCalls>>

Next ==
  \/ Handle /\ UNCHANGED aux
  \/ GateCatches /\ UNCHANGED aux
  \/ \E v \in GateVerdicts : GateSettles(v) /\ UNCHANGED aux
  \/ Returned /\ UNCHANGED aux
  \/ \E g \in GateInputs : SetGates(g) /\ UNCHANGED aux
  \/ \E rd \in RouteDataInputs : SetRouteData(rd) /\ UNCHANGED aux
  \/ \E n \in GateNames : \E cls \in ClassesFor(n) :
       HostRegisters(n, cls) /\ UNCHANGED aux
  \/ \E n \in GateNames : HostRemoves(n) /\ UNCHANGED aux

Spec == Init /\ [][Next]_vars

(* --------------------------- overlapping calls ------------------------- *)

\* Two handle() calls on one GateKeeper. `run` is the call whose code
\* executes, `parked` the other one, suspended at its await (or not yet
\* made, or over). At an await the event loop may continue either: Switch
\* turns to the other call. A caller reconfigures the GateKeeper and calls
\* handle() while the other call is suspended.
Switch ==
  /\ run.pc # "idle" \/ parked.pc # "idle"
  /\ run' = parked
  /\ parked' = run
  /\ UNCHANGED <<gates, gateInstances, gateClasses, routeData, ctorCalls, last, nav,
                 other>>

\* The gate lists the callers set: the guide's two gates.
OverlapInputs ==
  {Arr(<<Str("isAuthenticated")>>),
   Arr(<<Str("userHasKittens"), Str("isAuthenticated")>>),
   Arr(<<Str("isAuthenticated"), Str("userHasKittens")>>)}

\* The gateInstances the host registers: the guide's gates, or the guide's
\* names with a userHasKittens that asks a server before it answers.
OverlapRegistries ==
  {Obj([isAuthenticated |-> LoginGate, userHasKittens |-> KittensGate]),
   Obj([isAuthenticated |-> LoginGate, userHasKittens |-> AskingGate])}

\* The GateKeeper is the one the plugin constructs for runGates: no gates,
\* the host's gateInstances.
InitOverlap ==
  /\ parked = Idle
  /\ last = NoLast
  /\ nav = NoNav
  /\ other = NoOther
  /\ gates = setGates(Arr(<<>>))
  /\ gateInstances \in OverlapRegistries
  /\ gateClasses = <<>>
  /\ routeData = Undefined
  /\ run = Idle
  /\ ctorCalls = [n \in GateNames |-> 0]

\* Arguments of setRouteData: a RouteLocationNormalized, and none (the
\* default, null).
OverlapRouteData == {Obj([path |-> Str("/buy"), fullPath |-> Str("/buy")]), Null}

NextOverlap ==
  \/ Handle /\ UNCHANGED aux
  \/ GateCatches /\ UNCHANGED aux
  \/ \E v \in GateVerdicts : GateSettles(v) /\ UNCHANGED aux
  \/ Returned /\ UNCHANGED aux
  \/ \E g \in OverlapInputs : SetGates(g) /\ UNCHANGED aux
  \/ \E rd \in OverlapRouteData : SetRouteData(rd) /\ UNCHANGED aux
  \/ Switch

SpecOverlap == InitOverlap /\ [][NextOverlap]_vars

\* The two calls.
Calls == {run, parked}

(* ---------------------------- the router hook -------------------------- *)

\* Navigation targets (RouteLocationNormalized) the router gives the hook:
\* /buy or /login, with or without a redirect query, reached directly or by
\* a redirect, with or without meta.gates.
Queries == {Obj(<<>>), Obj([redirect |-> Str("/buy")]), Obj([redirect |-> Str("")])}

MetaInputs ==
  {Obj(<<>>),
   Obj([gates |-> Arr(<<Str("isAuthenticated")>>)]),
   Obj([gates |-> Arr(<<Str("userHasKittens"), Str("isAuthenticated")>>)])}

Target(query, meta) ==
  Obj([fullPath |-> IF query = Obj(<<>>) THEN Str("/buy") ELSE Str("/login"),
       query |-> query, meta |-> meta])

Targets ==
  {Target(q, m) : q \in Queries, m \in MetaInputs}
    \cup {Put(Target(Obj([redirect |-> Str("/buy")]), m), "redirectedFrom",
               Target(Obj(<<>>), Obj(<<>>))) : m \in MetaInputs}

\* The hook's test with redirectedFrom left out.
resumesWhateverTheOrigin(to) == Truthy(Get(Get(to, "query"), "redirect"))

\* !to.redirectedFrom && to.query.redirect
resumes(to) ==
  ~Truthy(Get(to, "redirectedFrom")) /\ Truthy(Get(Get(to, "query"), "redirect"))

\* The hook returning nothing for a target it resumes.
resumeReturnNothing(to) == Fulfilled(Undefined)

\* return to.query.redirect
resumeReturn(to) == Fulfilled(Get(Get(to, "query"), "redirect"))

\* (to.meta.gates as string[]) || []
declaredGates(to) ==
  IF Truthy(Get(Get(to, "meta"), "gates")) THEN Get(Get(to, "meta"), "gates")
  ELSE Arr(<<>>)

\* The hook's last lines with `response.data` tested for truth.
hookReturnIfTruthy(p) ==
  IF p.status = "rejected" THEN p
  ELSE IF Truthy(p.value) /\ Truthy(Get(p.value, "data"))
  THEN Fulfilled(Get(p.value, "data"))
  ELSE Fulfilled(Undefined)

\* What the hook's promise settles to, given the promise of gate.handle():
\* the await rethrows a rejection; `response && "data" in response`.
hookReturn(p) ==
  IF p.status = "rejected" THEN p
  ELSE IF Truthy(p.value) /\ "data" \in DOMAIN p.value.props
  THEN Fulfilled(Get(p.value, "data"))
  ELSE Fulfilled(Undefined)

\* The router calls the hook for a navigation to `to`: it returns at once,
\* or runs up to the first await of gate.handle().
BeforeEach(to) ==
  /\ nav.pc # "awaiting"
  /\ run.pc = "idle"
  /\ IF resumes(to)
     THEN /\ nav' = [pc |-> "returned", to |-> to,
                     call |-> Idle,
                     returned |-> resumeReturn(to)]
          /\ UNCHANGED <<gates, gateInstances, gateClasses, routeData, run, ctorCalls>>
     ELSE LET gs == setGates(declaredGates(to))
          IN  /\ gates' = gs
              /\ routeData' = to
              /\ LoopWith([Idle EXCEPT !.list = gs, !.routeData = to], 1, to, gs)
              /\ nav' = [pc |-> "awaiting", to |-> to,
                         call |-> Idle, returned |-> Pending]
              /\ UNCHANGED gateInstances
  /\ UNCHANGED <<parked, last, other>>

\* gate.handle() has settled and the hook returns to the router.
HookReturns ==
  /\ nav.pc = "awaiting"
  /\ run.pc = "settled"
  /\ nav' = [nav EXCEPT !.pc = "returned", !.call = run,
                        !.returned = hookReturn(run.promise)]
  /\ run' = Idle
  /\ UNCHANGED <<gates, gateInstances, gateClasses, routeData, ctorCalls,
                 parked, last, other>>

\* The plugin's GateKeeper for the router is constructed with no gates;
\* the host may add classes to the gateInstances object between
\* navigations.
InitNav == Init /\ gates = <<>>

NextNav ==
  \/ \E to \in Targets : BeforeEach(to)
  \/ GateCatches /\ UNCHANGED aux
  \/ \E v \in GateVerdicts : GateSettles(v) /\ UNCHANGED aux
  \/ HookReturns
  \/ \E n \in GateNames : \E cls \in ClassesFor(n) :
       HostRegisters(n, cls) /\ UNCHANGED aux

SpecNav == InitNav /\ [][NextNav]_vars

(* ------------------------------ the plugin ----------------------------- *)

\* gatePlugin.install creates one GateKeeper for runGates and, when it is
\* given a router, another one for the hook; both get options.gateInstances.
\* gates, gateClasses, routeData and run are the fields and the call of
\* the GateKeeper that is acting; `other` holds those of the second one,
\* and its role.
Install(router) ==
  /\ other.role = "none"
  /\ run.pc = "idle"
  /\ gates' = <<>>
  /\ gateClasses' = <<>>
  /\ routeData' = Undefined
  /\ other' = [role |-> "router", hook |-> router, gates |-> <<>>,
               gateClasses |-> <<>>, routeData |-> Undefined, run |-> Idle]
  /\ UNCHANGED <<gateInstances, run, ctorCalls, parked, last, nav>>

\* runGates and the hook bound to whichever GateKeeper is acting.
ActsAsAny(role) == other.role # "none"

\* The GateKeeper that is acting is the one install bound to this role:
\* "programmatic" for runGates, "router" for the hook.
ActsAs(role) == other.role # "none" /\ other.role # role

\* The other GateKeeper acts: the router calls the hook while a
\* programmatic call is suspended or between calls, or a component calls
\* runGates while the hook awaits its gates.
TurnToOther ==
  /\ other.role # "none"
  /\ other.hook
  /\ other' = [role |-> IF other.role = "router" THEN "programmatic" ELSE "router",
               hook |-> other.hook, gates |-> gates, gateClasses |-> gateClasses,
               routeData |-> routeData, run |-> run]
  /\ gates' = other.gates
  /\ gateClasses' = other.gateClasses
  /\ routeData' = other.routeData
  /\ run' = other.run
  /\ UNCHANGED <<gateInstances, ctorCalls, parked, last, nav>>

InitPlugin == Init /\ gates = <<>>

NextPlugin ==
  \/ \E router \in BOOLEAN : Install(router)
  \/ \E g \in OverlapInputs : ActsAs("programmatic") /\ SetGates(g) /\ UNCHANGED aux
  \/ ActsAs("programmatic") /\ Handle /\ UNCHANGED aux
  \/ \E v \in GateVerdicts : GateSettles(v) /\ UNCHANGED aux
  \/ ActsAs("programmatic") /\ Returned /\ UNCHANGED aux
  \/ \E to \in Targets : ActsAs("router") /\ BeforeEach(to)
  \/ ActsAs("router") /\ HookReturns
  \/ TurnToOther

SpecPlugin == InitPlugin /\ [][NextPlugin]_vars

(* --------------------------- redirects' queries ------------------------ *)

\* Gate classes whose denial is a redirect object: with and without a
\* query of its own, with and without the opt-out, or the default route.
RedirectClassesFor(n) ==
  IF n = "isAuthenticated" THEN {LoginGate, GuestGate, TabGate}
  ELSE {KittensGate}

\* One GateKeeper, one call at a time, with gates that redirect.
NextQuery ==
  \/ Handle /\ UNCHANGED aux
  \/ \E v \in GateVerdicts : GateSettles(v) /\ UNCHANGED aux
  \/ Returned /\ UNCHANGED aux
  \/ \E rd \in RouteDataInputs : SetRouteData(rd) /\ UNCHANGED aux
  \/ \E n \in GateNames : \E cls \in RedirectClassesFor(n) :
       HostRegisters(n, cls) /\ UNCHANGED aux

SpecQuery == Init /\ [][NextQuery]_vars

(* ------------------------- gates that do answer ------------------------ *)

\* The awaited gate's handle() completes: it returns or throws.
GateCompletes ==
  \/ \E v \in GateVerdicts : GateSettles(v) /\ UNCHANGED aux
  \/ \E e \in GateErrors : GateRejects(e) /\ UNCHANGED aux

NextLive ==
  \/ Handle /\ UNCHANGED aux
  \/ GateCompletes
  \/ Returned /\ UNCHANGED aux
  \/ \E rd \in RouteDataInputs : SetRouteData(rd) /\ UNCHANGED aux

\* One GateKeeper whose gates always answer in the end: a gate's handle()
\* that is awaited does complete.
SpecLive == Init /\ [][NextLive]_vars /\ WF_vars(GateCompletes)

(* ------------------------- one call after another ---------------------- *)

\* What the gate at each position of a call did: passed, returned
\* something (denied), or threw (and what).
Did(verdict, e) == [verdict |-> verdict, threw |-> e]

VerdictsOf(r) ==
  LET done == SelectSeq(r.evals, LAMBDA e : e.ev # "invoke")
  IN  [n \in 1..Len(done) |->
         IF done[n].ev = "throw" THEN Did("throw", done[n].data)
         ELSE IF done[n].data = Undefined THEN Did("pass", Undefined)
         ELSE Did("fail", Undefined)]

\* What is remembered of a handle() call once its caller has the result;
\* `untouched` says that nobody has changed the GateKeeper's route data or
\* the gateInstances object since.
Remembered(r) ==
  [verdicts |-> VerdictsOf(r), promise |-> r.promise, untouched |-> TRUE]

Touched == last' = [last EXCEPT !.untouched = FALSE] /\ UNCHANGED <<parked, nav, other>>

\* The same GateKeeper is run again and again with the gates it was
\* constructed with; gates may throw; the host changes its gateInstances
\* object and the route data between the calls.
NextRuns ==
  \/ Handle /\ UNCHANGED aux
  \/ GateCatches /\ UNCHANGED aux
  \/ \E v \in GateVerdicts : GateSettles(v) /\ UNCHANGED aux
  \/ \E e \in GateErrors : GateRejects(e) /\ UNCHANGED aux
  \/ Returned /\ last' = Remembered(run) /\ UNCHANGED <<parked, nav, other>>
  \/ \E rd \in RouteDataInputs : SetRouteData(rd) /\ Touched
  \/ \E n \in GateNames : \E cls \in ClassesFor(n) :
       HostRegisters(n, cls) /\ Touched
  \/ \E n \in GateNames : HostRemoves(n) /\ Touched

SpecRuns == Init /\ [][NextRuns]_vars

(* ------------------------- properties of handle() ---------------------- *)

NameAt(i) == Get(run.list[i], "name").s

\* The gate at position k of the running list resolved to `data`.
SettledWith(k, data) ==
  \E n \in 1..Len(run.evals) :
    run.evals[n].ev = "settle" /\ run.evals[n].pos = k /\ run.evals[n].data = data

PassedAt(k) == SettledWith(k, Undefined)

DeniedAt(k) ==
  \E n \in 1..Len(run.evals) :
    /\ run.evals[n].ev = "settle" /\ run.evals[n].pos = k
    /\ run.evals[n].data # Undefined

InvokedAt(k) ==
  \E n \in 1..Len(run.evals) : run.evals[n].ev = "invoke" /\ run.evals[n].pos = k

\* handle() returned a result {gate, data}.
ReturnedResult ==
  /\ run.pc = "settled"
  /\ run.promise.status = "fulfilled"
  /\ run.promise.value # Undefined

\* C1: when gate k denies and every gate before it passed, handle() returns
\* a result naming gate k and no gate after k is invoked.
C1_ShortCircuit ==
  \A k \in 1..Len(run.list) :
    (DeniedAt(k) /\ \A j \in 1..(k - 1) : PassedAt(j))
      => /\ ReturnedResult
         /\ Get(run.promise.value, "gate") = Str(NameAt(k))
         /\ \A j \in (k + 1)..Len(run.list) : ~InvokedAt(j)

\* The part of C1 the code keeps: after a denial at k no later gate is
\* invoked and handle() has settled.
ShortCircuitNoLaterGate ==
  \A k \in 1..Len(run.list) :
    DeniedAt(k) => /\ run.pc = "settled"
                   /\ \A j \in (k + 1)..Len(run.list) : ~InvokedAt(j)

\* C2: the gates of one handle() call are evaluated in list order, one at a
\* time: the n-th entry of the log is the call (n odd) or the completion
\* (n even) of the gate at position (n+1)/2 of the configured list, and
\* every completion but the last is a pass.
C2_InOrderOneAtATime ==
  /\ run.pc # "idle" => run.list = gates
  /\ \A n \in 1..Len(run.evals) :
       LET e == run.evals[n]
       IN  /\ e.pos = (n + 1) \div 2
           /\ e.pos \in 1..Len(run.list)
           /\ e.ev = IF n % 2 = 1 THEN "invoke" ELSE "settle"
           /\ e.inst.id.name = NameAt(e.pos)
           /\ (n % 2 = 0 /\ n < Len(run.evals)) => e.data = Undefined

\* Two different gates were evaluated one after the other.
C2_Witness ==
  /\ Len(run.evals) = 4
  /\ NameAt(1) # NameAt(2)
  /\ run.pc = "settled"

\* C3: handle() resolves to undefined exactly when every gate of the list
\* was evaluated and passed; for the empty list it does so without
\* resolving or evaluating any gate.
C3_UndefinedIffAllPass ==
  run.pc = "settled" =>
    /\ (run.promise = Fulfilled(Undefined))
         <=> (\A k \in 1..Len(run.list) : PassedAt(k))
    /\ run.list = <<>> => (run.resolutions = <<>> /\ run.evals = <<>>)

\* A run of two gates that both passed.
C3_Witness ==
  /\ run.pc = "settled"
  /\ Len(run.list) = 2
  /\ PassedAt(1) /\ PassedAt(2)
  /\ run.promise = Fulfilled(Undefined)

\* The empty list resolved to undefined.
C3_WitnessEmpty ==
  run.pc = "settled" /\ run.list = <<>> /\ run.promise = Fulfilled(Undefined)

\* A name with no entry in gateInstances and no cached instance.
Unresolvable(n) ==
  /\ ~(gateInstances # Undefined /\ n \in DOMAIN gateInstances.props)
  /\ n \notin DOMAIN gateClasses

\* C4: a run whose list holds an unresolvable name never resolves to
\* undefined: when every gate before the first such name passes it rejects
\* with the unknown-gate error, otherwise it returns the earlier denial.
C4_UnknownGateRejects ==
  (run.pc = "settled" /\ \E i \in 1..Len(run.list) : Unresolvable(NameAt(i))) =>
    LET i == CHOOSE i \in 1..Len(run.list) :
               /\ Unresolvable(NameAt(i))
               /\ \A j \in 1..(i - 1) : ~Unresolvable(NameAt(j))
    IN  /\ run.promise # Fulfilled(Undefined)
        /\ IF \A j \in 1..(i - 1) : PassedAt(j)
           THEN run.promise = Rejected(UnknownGateError(NameAt(i)))
           ELSE /\ ReturnedResult
                /\ \E j \in 1..(i - 1) :
                     /\ DeniedAt(j)
                     /\ Get(run.promise.value, "gate") = Str(NameAt(j))

\* The part of C4 the code keeps: such a run never resolves to undefined,
\* and the unknown gate is never evaluated.
UnknownGateNeverPasses ==
  (run.pc = "settled" /\ \E i \in 1..Len(run.list) : Unresolvable(NameAt(i))) =>
    /\ run.promise # Fulfilled(Undefined)
    /\ \A i \in 1..Len(run.list) : Unresolvable(NameAt(i)) => ~InvokedAt(i)

\* C5: per gate name at most one instance is ever constructed; a cached
\* instance is the one of the first resolution, and every gate a run
\* evaluates is that instance, whatever gateInstances holds by then.
C5_OneInstancePerName ==
  /\ \A n \in GateNames :
       /\ ctorCalls[n] <= 1
       /\ n \in DOMAIN gateClasses <=> ctorCalls[n] = 1
       /\ n \in DOMAIN gateClasses => gateClasses[n].id = [name |-> n, serial |-> 1]
  /\ \A k \in 1..Len(run.evals) :
       /\ run.evals[k].inst.id.serial = 1
       /\ run.evals[k].inst.id = gateClasses[run.evals[k].inst.id.name].id
       /\ run.evals[k].inst.cls = gateClasses[run.evals[k].inst.id.name].cls

\* A run evaluates a cached instance whose gateInstances entry was changed
\* or removed since it was constructed.
C5_Witness ==
  /\ gateInstances # Undefined
  /\ \E k \in 1..Len(run.evals) :
       /\ run.evals[k].ev = "invoke"
       /\ Get(gateInstances, run.evals[k].inst.id.name) # run.evals[k].inst.cls

(* -------------------------- properties of denial ----------------------- *)

\* The log entries in which a gate denied.
Denials ==
  {n \in 1..Len(run.evals) :
     run.evals[n].ev = "settle" /\ run.evals[n].data # Undefined}

ResultOf(name, data) == Fulfilled(Obj([gate |-> Str(name), data |-> data]))

\* C6: a denial made by fail() is what route() yields when the options the
\* pipeline gave the gate carry a truthy routeData; without one it is the
\* gate's form: a string or false, never a redirect object.
C6_FailRule ==
  \A n \in Denials :
    LET e == run.evals[n]
        rd == Get(e.inst.options, "routeData")
    IN  /\ rd = run.routeData
        /\ IF Truthy(rd)
           THEN e.data = route(e.inst)
           ELSE /\ e.data = e.inst.cls.form
                /\ e.data.t \in {"string", "boolean"}
                /\ e.data.t = "boolean" => e.data = False

\* A programmatic denial by a gate whose route() would redirect: the form id.
C6_Witness ==
  \E n \in Denials :
    /\ ~Truthy(run.routeData)
    /\ run.evals[n].inst.cls = PathGate
    /\ run.evals[n].data = Str("Subscribe")
    /\ run.promise = ResultOf(run.evals[n].inst.id.name, Str("Subscribe"))

\* A navigation denial: what route() yields.
C6_WitnessNavigation ==
  \E n \in Denials :
    /\ Truthy(run.routeData)
    /\ run.evals[n].inst.cls = LoginGate
    /\ run.evals[n].data = Obj([name |-> Str("login")])

\* C7: baseGate's route(), reached by a denial with a target set: a gate
\* without form yields false, returned as {gate, data: false} with no query
\* even when the target has a fullPath; a gate with a form yields the path
\* "/confirm/" + form, returned with query.redirect = fullPath when the
\* target has one ("AddKittens", "/buy": /confirm/AddKittens?redirect=/buy).
C7_DefaultRoute ==
  \A n \in Denials :
    LET e == run.evals[n]
        name == e.inst.id.name
        fullPath == fullPathOf(run.routeData)
    IN  (~e.inst.cls.overridesRoute /\ Truthy(run.routeData)) =>
          IF e.inst.cls.form = False
          THEN /\ e.data = False
               /\ run.promise = ResultOf(name, False)
          ELSE /\ e.data = Obj([path |-> Str("/confirm/" \o e.inst.cls.form.s)])
               /\ run.promise =
                    IF Truthy(fullPath)
                    THEN ResultOf(name, Obj([path |-> e.data.props.path,
                                             query |-> Obj([redirect |-> fullPath])]))
                    ELSE ResultOf(name, e.data)
               /\ (e.inst.cls.form = Str("AddKittens") /\ fullPath = Str("/buy"))
                    => run.promise =
                         ResultOf(name,
                                  Obj([path |-> Str("/confirm/AddKittens"),
                                       query |-> Obj([redirect |-> Str("/buy")])]))

\* The gate with form "AddKittens" denied a navigation to /buy.
C7_Witness ==
  \E n \in Denials :
    /\ run.evals[n].inst.cls = KittensGate
    /\ fullPathOf(run.routeData) = Str("/buy")
    /\ run.promise.status = "fulfilled"
    /\ Get(Get(run.promise.value, "data"), "path") = Str("/confirm/AddKittens")

\* A gate without form denied a navigation to a target with a fullPath.
C7_WitnessCancel ==
  \E n \in Denials :
    /\ run.evals[n].inst.cls = CameraGate
    /\ Truthy(fullPathOf(run.routeData))
    /\ run.promise = ResultOf(run.evals[n].inst.id.name, False)

\* C8: with a target whose fullPath is non-empty, a denial that is a
\* redirect (a location object or a path string, anything but false) and
\* does not set setRedirectToIntended to false is returned with
\* query.redirect equal to that fullPath.
C8_ResumeQuery ==
  \A n \in Denials :
    LET e == run.evals[n]
    IN  (/\ Truthy(fullPathOf(run.routeData))
         /\ e.data # False
         /\ Get(e.data, "setRedirectToIntended") # False)
          => /\ ReturnedResult
             /\ Get(Get(Get(run.promise.value, "data"), "query"), "redirect")
                  = fullPathOf(run.routeData)

\* The part of C8 the code keeps: a redirect that is a location object.
ResumeQueryOnObjects ==
  \A n \in Denials :
    LET e == run.evals[n]
    IN  (/\ Truthy(fullPathOf(run.routeData))
         /\ e.data.t = "object"
         /\ Get(e.data, "setRedirectToIntended") # False)
          => /\ ReturnedResult
             /\ Get(Get(Get(run.promise.value, "data"), "query"), "redirect")
                  = fullPathOf(run.routeData)

\* C9: a denial whose redirect sets setRedirectToIntended to false is
\* returned as the gate produced it, its query untouched, also when the
\* target has a fullPath.
C9_OptOut ==
  \A n \in Denials :
    LET e == run.evals[n]
    IN  Get(e.data, "setRedirectToIntended") = False
          => run.promise = ResultOf(e.inst.id.name, e.data)

\* An opted-out redirect with a query of its own, the target having a
\* fullPath.
C9_Witness ==
  \E n \in Denials :
    /\ Get(run.evals[n].data, "setRedirectToIntended") = False
    /\ Truthy(fullPathOf(run.routeData))
    /\ Get(Get(run.promise.value, "data"), "query") = Obj([tab |-> Str("home")])

\* C10: whatever a gate denies with (false, a form id, a path string, a
\* location object) and whatever the target, handle() returns {gate, data}
\* and does not reject.
C10_DenialIsNotAnError ==
  \A n \in Denials :
    /\ run.pc = "settled"
    /\ run.promise.status = "fulfilled"
    /\ run.promise.value.t = "object"
    /\ DOMAIN run.promise.value.props = {"gate", "data"}
    /\ Get(run.promise.value, "gate") = Str(run.evals[n].inst.id.name)

\* The part of C10 the code keeps: a denial is rejected only when it is a
\* string and the target has a fullPath.
DenialRejectedOnlyForStrings ==
  \A n \in Denials :
    run.promise.status = "rejected"
      => /\ run.evals[n].data.t = "string"
         /\ Truthy(fullPathOf(run.routeData))
         /\ run.promise.value = PropertyError

(* --------------------------------- C11 --------------------------------- *)

ThrewAt(k) ==
  \E n \in 1..Len(run.evals) : run.evals[n].ev = "throw" /\ run.evals[n].pos = k

\* C11: when a gate's handle() throws or rejects, handle() rejects with the
\* very value the gate threw: it returns no result, the failure is neither
\* a denial nor a pass, and no later gate is resolved or invoked.
C11_GateFailurePropagates ==
  \A n \in 1..Len(run.evals) :
    run.evals[n].ev = "throw"
      => /\ n = Len(run.evals)
         /\ run.pc = "settled"
         /\ run.promise = Rejected(run.evals[n].data)
         /\ Len(run.resolutions) = run.evals[n].pos
         /\ \A j \in (run.evals[n].pos + 1)..Len(run.list) : ~InvokedAt(j)

\* The first of two gates threw an Error.
C11_Witness ==
  /\ Len(run.list) = 2
  /\ ThrewAt(1)
  /\ run.promise.status = "rejected"
  /\ run.promise.value.t = "error"

(* --------------------------------- C12 --------------------------------- *)

IsPrefix(a, b) == Len(a) <= Len(b) /\ \A i \in 1..Len(a) : a[i] = b[i]

\* The call in progress repeats the previous one: nothing was reconfigured
\* in between and every gate evaluated so far answered as it did then.
RepeatsLast ==
  /\ last.untouched
  /\ IsPrefix(VerdictsOf(run), last.verdicts)

\* C12: no outcome is kept from one handle() call to the next. Every call
\* starts with the first gate of the list, however the previous call
\* ended, and a call that repeats the previous one (same gates, same route
\* data, same gateInstances, gates answering the same) settles as the
\* previous one did: same gate name, same data, or the same error.
C12_EveryRunStartsAfresh ==
  /\ run.pc # "idle" /\ Len(run.list) > 0
       => /\ run.resolutions[1] = NameAt(1)
          /\ Len(run.evals) > 0 => run.evals[1].pos = 1
  /\ run.pc # "idle" /\ Len(run.list) = 0 => run.promise = Fulfilled(Undefined)
  /\ run.pc = "settled" /\ RepeatsLast => run.promise = last.promise

\* The previous call ended with a denial by the second gate, and so did
\* this one.
C12_Witness ==
  /\ run.pc = "settled" /\ RepeatsLast
  /\ last.verdicts = <<Did("pass", Undefined), Did("fail", Undefined)>>
  /\ ReturnedResult

\* The previous call ended with an error (thrown by a gate, or by the
\* resolution of a name), and this one started at the first gate.
C12_WitnessAfterError ==
  /\ last.promise.status = "rejected"
  /\ run.pc = "awaiting" /\ run.idx = 1

(* --------------------------------- C13 --------------------------------- *)

\* The gates' handle() calls of the call in progress.
Invocations == {n \in 1..Len(run.evals) : run.evals[n].ev = "invoke"}

\* C13 as claimed: a gate named by a bare string is called with an empty
\* mapping as gateOptions.
C13_BareNameGetsEmptyOptions ==
  \A n \in Invocations :
    Get(run.evals[n].inst.options, "gateOptions") = Obj(<<>>)

\* C13: setGates turns a bare name into {name}, without an options
\* property, so the gate it names is called with gateOptions undefined.
C13_BareNameGetsNoOptions ==
  /\ \A i \in 1..Len(gates) :
       /\ DOMAIN gates[i].props = {"name"}
       /\ Get(gates[i], "name").t = "string"
  /\ \A n \in Invocations :
       /\ "gateOptions" \in DOMAIN run.evals[n].inst.options.props
       /\ Get(run.evals[n].inst.options, "gateOptions") = Undefined

\* A gate named by a bare string has been called.
C13_Witness ==
  /\ run.pc = "awaiting"
  /\ Invocations # {}
  /\ Len(gates) = 2

(* --------------------------------- C14 --------------------------------- *)

\* this.gateInstances && this.gateInstances[name]
Registered(n) == IF Truthy(gateInstances) THEN Truthy(Get(gateInstances, n)) ELSE FALSE

\* C14: a name that is not in gateInstances but has a gate file to import
\* is loaded, instantiated, cached and evaluated: its resolution does not
\* end in the unknown-gate error.
C14_DynamicFallback ==
  \A i \in 1..Len(run.resolutions) :
    LET n == run.resolutions[i]
    IN  ~Registered(n) /\ GateModule(n) # Undefined
          => /\ InvokedAt(i)
             /\ n \in DOMAIN gateClasses
             /\ run.promise # Rejected(UnknownGateError(n))

(* --------------------------------- C15 --------------------------------- *)

\* The call in progress has called handle() of a gate constructed from the
\* class registered under the name at position i.
EvaluatedAsRegistered(i) ==
  \E n \in Invocations :
    /\ run.evals[n].pos = i
    /\ run.evals[n].inst.cls = Get(gateInstances, run.resolutions[i])

\* C15: a call that fails with the unknown-gate error for a name leaves no
\* cache entry for it; when the host has since registered the name in the
\* gateInstances object the GateKeeper was constructed with, the next call
\* resolves the name and calls the registered gate.
C15_RetryAfterUnknownGate ==
  \A name \in GateNames :
    /\ run.pc = "settled" /\ run.promise = Rejected(UnknownGateError(name))
         => name \notin DOMAIN gateClasses
    /\ last.promise = Rejected(UnknownGateError(name)) /\ Registered(name)
         => \A i \in 1..Len(run.resolutions) :
              run.resolutions[i] = name => EvaluatedAsRegistered(i)

\* The previous call failed for want of userHasKittens; the host has
\* registered it and this call is evaluating it as the second gate.
C15_Witness ==
  /\ last.promise = Rejected(UnknownGateError("userHasKittens"))
  /\ Registered("userHasKittens")
  /\ Len(run.resolutions) = 2 /\ run.resolutions[2] = "userHasKittens"
  /\ EvaluatedAsRegistered(2)

(* --------------------------------- C16 --------------------------------- *)

\* The target carries a non-empty redirect query and was not reached by a
\* redirect.
ResumeMarked(to) ==
  /\ Get(to, "redirectedFrom") = Undefined
  /\ Get(Get(to, "query"), "redirect").t = "string"
  /\ Get(Get(to, "query"), "redirect").s # ""

\* The names the target declares in meta.gates.
DeclaredNames(to) ==
  IF Get(Get(to, "meta"), "gates") = Undefined THEN <<>>
  ELSE Get(Get(to, "meta"), "gates").items

\* The handle() call the hook made for the navigation it handles.
HookCall == IF nav.pc = "awaiting" THEN run ELSE nav.call

C16_Outcome ==
  nav.pc # "none" =>
    IF ResumeMarked(nav.to)
    THEN /\ nav.pc = "returned"
         /\ nav.returned = Fulfilled(Get(Get(nav.to, "query"), "redirect"))
         /\ HookCall = Idle
    ELSE /\ HookCall.pc # "idle"
         /\ getGateNames(HookCall.list) = DeclaredNames(nav.to)
         /\ HookCall.routeData = nav.to
         /\ DeclaredNames(nav.to) # <<>>
              => HookCall.resolutions[1] = DeclaredNames(nav.to)[1].s
         /\ nav.pc = "returned" => HookCall.pc = "settled"

C16_ResumeStep ==
  (nav.pc # "awaiting" /\ nav'.pc = "returned" /\ ResumeMarked(nav'.to))
    => UNCHANGED <<gates, routeData, gateClasses, run, ctorCalls>>

\* C16: for a target with a non-empty redirect query and redirectedFrom
\* unset the hook returns the query's value, makes no handle() call and
\* leaves the gate list, the route data and the gate instances as they
\* were; for every other target it runs the gates the target declares.
C16_ResumeConvention == [](C16_Outcome) /\ [][C16_ResumeStep]_vars

\* The hook resumed a navigation whose target declares a gate, after an
\* earlier navigation had set other gates.
C16_Witness ==
  /\ nav.pc = "returned" /\ ResumeMarked(nav.to)
  /\ DeclaredNames(nav.to) = <<Str("isAuthenticated")>>
  /\ Len(gates) = 2

\* A target that carries the redirect query but was reached by a redirect
\* had its gate evaluated.
C16_WitnessRedirected ==
  /\ nav.pc = "returned"
  /\ Get(nav.to, "redirectedFrom") # Undefined
  /\ Truthy(Get(Get(nav.to, "query"), "redirect"))
  /\ Len(nav.call.evals) > 0

(* --------------------------------- C17 --------------------------------- *)

\* C17: having set the target's gates and the target and awaited handle(),
\* the hook returns the result's data (the redirect target, or false for a
\* cancellation) when handle() returned a result, and returns nothing
\* exactly when handle() returned undefined.
C17_HookTranslatesOutcome ==
  nav.pc = "returned" /\ nav.call.pc = "settled" =>
    LET p == nav.call.promise
    IN  /\ getGateNames(gates) = DeclaredNames(nav.to)
        /\ routeData = nav.to
        /\ p.status = "fulfilled" /\ p.value # Undefined
             => nav.returned = Fulfilled(Get(p.value, "data"))
        /\ (nav.returned = Fulfilled(Undefined)) <=> (p = Fulfilled(Undefined))

\* The hook returned false: the first of the target's two gates cancelled
\* the navigation.
C17_Witness ==
  /\ nav.pc = "returned"
  /\ nav.returned = Fulfilled(False)
  /\ Len(nav.call.list) = 2 /\ Len(nav.call.evals) = 2

\* The hook returned a redirect target carrying the resume query.
C17_WitnessRedirect ==
  /\ nav.pc = "returned"
  /\ nav.returned.status = "fulfilled"
  /\ Get(Get(nav.returned.value, "query"), "redirect") = Str("/buy")

(* --------------------------------- C18 --------------------------------- *)

\* Each call with the other one.
CallPairs == {<<run, parked>>, <<parked, run>>}

\* C18: a call's setOptions stores that call's context on the cached
\* instance, and a denial is computed by fail() from the options the
\* instance holds when the gate evaluates it: the call's own when the gate
\* evaluates it while it is called, whatever the instance holds by then
\* when the gate awaits something first; so with two overlapping calls
\* resolving the same name, the second call's setOptions decides the
\* denial of a first call whose gate was still waiting.
C18_SharedInstanceOptions ==
  \A c \in Calls : \A n \in 1..Len(c.evals) :
    /\ c.evals[n].ev = "invoke"
         => /\ Get(c.evals[n].inst.options, "gateOptions")
                 = Get(c.list[c.evals[n].pos], "options")
            /\ c.evals[n].pos = 1
                 => Get(c.evals[n].inst.options, "routeData") = c.routeData
    /\ c.evals[n].ev = "settle" /\ c.evals[n].data # Undefined
         => IF c.answer.given
            THEN /\ awaitsBeforeFail(c.evals[n].inst.cls)
                 /\ c.answer.inst.id = c.evals[n - 1].inst.id
                 /\ c.evals[n].data = fail(c.answer.inst)
            ELSE c.evals[n].data = fail(c.evals[n - 1].inst)

\* The hazard: the first call's gate denied after the second call had set
\* its own context on the same instance, and the denial is what fail()
\* gives for the second call's context, not for the first call's.
C18_Witness ==
  \E p \in CallPairs : \E n \in 2..Len(p[1].evals) : \E m \in 1..Len(p[2].evals) :
    /\ p[1].evals[n].ev = "settle" /\ p[1].evals[n].data # Undefined
    /\ p[1].answer.given
    /\ p[2].evals[m].ev = "invoke" /\ p[2].evals[m].inst = p[1].answer.inst
    /\ Get(p[1].answer.inst.options, "routeData") = p[2].routeData
    /\ p[2].routeData # p[1].routeData
    /\ p[1].evals[n].data # fail(p[1].evals[n - 1].inst)

(* --------------------------------- C19 --------------------------------- *)

\* C19: every gate of a call is given the route data that was set when
\* handle() was called, and the resume query of its result is that route
\* data's fullPath, also when setRouteData is called while the call is
\* suspended.
C19_TargetFixedForRun ==
  \A c \in Calls :
    /\ \A n \in 1..Len(c.evals) :
         c.evals[n].ev = "invoke"
           => Get(c.evals[n].inst.options, "routeData") = c.routeData
    /\ c.pc = "settled" /\ Len(c.evals) > 0 /\ c.evals[Len(c.evals)].data # Undefined
         => c.promise = intercept(c.list[c.idx], c.evals[Len(c.evals)].data, c.routeData)

(* --------------------------------- C20 --------------------------------- *)

\* C20: a call evaluates the list this.gates held when handle() was
\* called, gate by gate, also when setGates replaces the list while the
\* call is suspended.
C20_ListFixedForRun ==
  \A c \in Calls :
    /\ Len(c.resolutions) <= Len(c.list)
    /\ \A i \in 1..Len(c.resolutions) :
         c.resolutions[i] = Get(c.list[i], "name").s
    /\ \A n \in 1..Len(c.evals) :
         /\ c.evals[n].pos = (n + 1) \div 2
         /\ c.evals[n].inst.id.name = Get(c.list[c.evals[n].pos], "name").s
    /\ c.promise = Fulfilled(Undefined) => Len(c.evals) = 2 * Len(c.list)

\* The second gate of a call was called after setGates had replaced the
\* list by one with another gate in second place, or none.
C20_Witness ==
  \E c \in Calls :
    /\ Len(c.held) = 2
    /\ c.held[2] # c.list
    /\ Len(c.held[2]) < 2 \/ Get(c.held[2][2], "name") # Get(c.list[2], "name")

(* --------------------------------- C21 --------------------------------- *)

\* The hook's handle() call called the gate at position k and the gate
\* passed.
PassedInHookAt(k) ==
  \E n \in 2..Len(nav.call.evals) :
    /\ nav.call.evals[n - 1].ev = "invoke" /\ nav.call.evals[n - 1].pos = k
    /\ nav.call.evals[n].ev = "settle" /\ nav.call.evals[n].pos = k
    /\ nav.call.evals[n].data = Undefined

\* The hook returned nothing: the router lets the navigation proceed to
\* its target as it is.
Admitted == nav.pc = "returned" /\ nav.returned = Fulfilled(Undefined)

\* C21: the hook lets a navigation proceed as it is only when, in that
\* invocation, handle() called every gate the target declares and each
\* passed; a target with a redirect query and no redirectedFrom is never
\* let through as it is, it is redirected to the query's value.
C21_NavigationSafety ==
  /\ Admitted
       => /\ ~ResumeMarked(nav.to)
          /\ nav.call.pc = "settled"
          /\ getGateNames(nav.call.list) = DeclaredNames(nav.to)
          /\ \A k \in 1..Len(DeclaredNames(nav.to)) : PassedInHookAt(k)
  /\ nav.pc = "returned" /\ ResumeMarked(nav.to)
       => /\ nav.returned.status = "fulfilled"
          /\ nav.returned.value.t = "string" /\ nav.returned.value.s # ""

\* A navigation to a target with two gates was let through.
C21_Witness ==
  /\ Admitted
  /\ Len(DeclaredNames(nav.to)) = 2
  /\ PassedInHookAt(2)

\* A gated target with the redirect query added was not let through.
C21_WitnessMarked ==
  /\ nav.pc = "returned" /\ ResumeMarked(nav.to)
  /\ Len(DeclaredNames(nav.to)) = 2
  /\ ~Admitted

(* --------------------------------- C22 --------------------------------- *)

Acting == [gates |-> gates, gateClasses |-> gateClasses, routeData |-> routeData,
           run |-> run]

Waiting == [gates |-> other.gates, gateClasses |-> other.gateClasses,
            routeData |-> other.routeData, run |-> other.run]

\* The GateKeeper behind runGates and the one behind the hook.
Programmatic == IF other.role = "router" THEN Acting ELSE Waiting

OfRouter == IF other.role = "router" THEN Waiting ELSE Acting

\* What a programmatic denial is: false, or the gate's form id.
FormOrCancel(data) == data = False \/ data.t = "string"

C22_Separate ==
  other.role # "none" =>
    /\ Programmatic.routeData = Undefined
    /\ \A n \in DOMAIN Programmatic.gateClasses :
         /\ Get(Programmatic.gateClasses[n].options, "routeData") = Undefined
         /\ n \in DOMAIN OfRouter.gateClasses
              => Programmatic.gateClasses[n].id # OfRouter.gateClasses[n].id
    /\ \A n \in 1..Len(Programmatic.run.evals) :
         Programmatic.run.evals[n].ev = "settle"
           => \/ Programmatic.run.evals[n].data = Undefined
              \/ FormOrCancel(Programmatic.run.evals[n].data)
    /\ Programmatic.run.promise.status = "fulfilled"
       /\ Programmatic.run.promise.value # Undefined
         => /\ FormOrCancel(Get(Programmatic.run.promise.value, "data"))
            /\ Programmatic.run.list = Programmatic.gates
    /\ nav.pc = "awaiting"
         => /\ getGateNames(OfRouter.run.list) = DeclaredNames(nav.to)
            /\ getGateNames(OfRouter.gates) = DeclaredNames(nav.to)
            /\ OfRouter.routeData = nav.to
    /\ ~other.hook => nav = NoNav /\ OfRouter = [Waiting EXCEPT !.run = Idle]

C22_Step ==
  other.role # "none" =>
    /\ Programmatic' # Programmatic => OfRouter' = OfRouter /\ nav' = nav
    /\ nav' # nav => Programmatic' = Programmatic

\* C22: runGates and the hook work on two GateKeepers with their own
\* gates, routeData and gate instances. No navigation changes what a
\* programmatic call sees (its denials are a form id or false, never a
\* redirect), no runGates changes what a navigation evaluates, and without
\* a router there is no hook while runGates works.
C22_EngineIsolation == [](C22_Separate) /\ [][C22_Step]_vars

\* After a navigation that evaluated userHasKittens with its target, a
\* programmatic call was denied by its own instance of that gate with the
\* form id.
C22_Witness ==
  /\ other.role # "none" /\ other.hook
  /\ OfRouter.routeData # Undefined
  /\ "userHasKittens" \in DOMAIN OfRouter.gateClasses
  /\ Programmatic.run.promise.status = "fulfilled"
  /\ Get(Programmatic.run.promise.value, "data") = Str("AddKittens")

\* Installed without a router, a programmatic call returned a result.
C22_WitnessNoRouter ==
  /\ other.role # "none" /\ ~other.hook
  /\ Programmatic.run.promise.status = "fulfilled"
  /\ Programmatic.run.promise.value # Undefined

(* --------------------------------- C23 --------------------------------- *)

\* The value the denying gate returned, as the gate returned it.
DenialData == run.evals[Len(run.evals)].data

\* handle() has returned a redirect object to which it attached the resume
\* query.
ResumeAttached ==
  /\ ReturnedResult
  /\ DenialData.t = "object"
  /\ Get(DenialData, "setRedirectToIntended") # False
  /\ Truthy(fullPathOf(run.routeData))

\* C23: attaching the resume query replaces the redirect's whole query:
\* the returned redirect's query holds the single key redirect, valued
\* with routeData.fullPath, whatever query route() had put there; all else
\* of the redirect is kept, and it is the object route() returned that
\* was written to, not a copy.
C23_QueryReplaced ==
  ResumeAttached =>
    LET data == Get(run.promise.value, "data")
    IN  /\ Get(data, "query") = Obj([redirect |-> fullPathOf(run.routeData)])
        /\ DOMAIN Get(data, "query").props = {"redirect"}
        /\ DOMAIN data.props = DOMAIN DenialData.props \cup {"query"}
        /\ \A k \in DOMAIN DenialData.props \ {"query"} :
             data.props[k] = DenialData.props[k]
        /\ run.routed = data

\* route() had put a query of its own on the redirect, and it is gone.
C23_Witness ==
  /\ ResumeAttached
  /\ Get(DenialData, "query") = Obj([tab |-> Str("home")])
  /\ Get(Get(run.promise.value, "data"), "query") = Obj([redirect |-> Str("/buy")])

(* --------------------------------- C24 --------------------------------- *)

\* A settled call has seen every gate it called complete, and no call
\* evaluates more gates than its list has entries.
C24_Evaluations ==
  /\ Len(run.evals) <= 2 * Len(run.list)
  /\ run.pc = "settled" => Len(run.evals) % 2 = 0
  /\ run.pc = "awaiting" => Len(run.evals) % 2 = 1 /\ run.promise = Pending

\* A suspended call changes only by its awaited gate completing: until
\* then no later gate is started and the promise stays pending.
C24_SuspendedStep ==
  (run.pc = "awaiting" /\ run' # run)
    => /\ Len(run'.evals) >= Len(run.evals) + 1
       /\ run'.evals[Len(run.evals) + 1].ev \in {"settle", "throw"}
       /\ run'.evals[Len(run.evals) + 1].pos = run.idx

\* C24: handle() has no timeout: when every gate it awaits completes, it
\* settles (undefined, a result, or an error) after at most one evaluation
\* per list entry; while the awaited gate has not completed the call stays
\* suspended and starts no later gate.
C24_Termination ==
  /\ (run.pc = "awaiting") ~> (run.pc = "settled")
  /\ [](C24_Evaluations)
  /\ [][C24_SuspendedStep]_vars

\* A call over two gates has settled after both were evaluated.
C24_Witness ==
  /\ run.pc = "settled"
  /\ Len(run.list) = 2
  /\ Len(run.evals) = 4

====
